---- MODULE Spec2Model ----
(***************************************************************************)
(* The Gautier iteration test: main() of src/program.cxx and of            *)
(* src/program_optimized.cxx as one state machine.  The two files differ   *)
(* only in the alignment pause and in the timed counting loop; everything  *)
(* else (directories, input, summary log, detail file, final summary) is   *)
(* the same code and is modelled once.                                     *)
(*                                                                         *)
(* Environment: the clock, the filesystem and standard input.  The clock   *)
(* is a millisecond count `now` that only moves forward (Tick, and the     *)
(* sleeps); system_clock and steady_clock both read it, so a wall clock    *)
(* that is set back during a run is not part of this model.  Every         *)
(* program step reads the clock at most once, Tick may happen before any   *)
(* step that reads it.                                                     *)
(***************************************************************************)
EXTENDS Integers, Sequences, FiniteSets, TLC

VARIABLES
    variant,        \* "program" (program.cxx) or "optimized" (program_optimized.cxx)
    pc,             \* position in main()
    now,            \* the clock, milliseconds
    ticks,          \* number of Tick steps taken (bounded by MaxTicks)
    stdin,          \* the characters on standard input
    fsDirs,         \* the directories that exist
    dirFailed,      \* directories whose creation failed or that are missing after it
    itLog,          \* CycleLog/Iteration.txt: the blocks it holds
    priorLog,       \* what Iteration.txt held before the run
    detailFiles,    \* CycleLogDetail: file name -> lines
    ioFailed,       \* the writes that failed (stream left in a failed state)
    cerr,           \* lines written to std::cerr
    cout,           \* lines written to std::cout
    exitCode,       \* -1 while running, else the process's exit status
    cycles,         \* n_type cycles
    cycle,          \* n_type cycle (the for-loop variable)
    sumOfIterations,
    cycleStartTime,
    detailFilePath,
    buffer,         \* std::ostringstream buffer: the lines of the cycle
    pauseMs,
    tmSec,          \* the sampled second the pause loop tests
    sleeps,         \* the sleeps of the current cycle's pause: <<tested second, ms>>
    startTp,
    startStr,
    startSecond,
    endTp,          \* optimized: the steady_clock deadline
    endStr,
    iterations,
    i,
    currentSecond,
    bursts,         \* Count steps taken in this cycle (bounded by MaxBursts)
    loopExitAt,     \* the clock reading that ended the counting loop
    summary         \* the final summary's numbers

vars == <<variant, pc, now, ticks, stdin, fsDirs, dirFailed, itLog, priorLog,
          detailFiles, ioFailed, cerr, cout, exitCode, cycles, cycle,
          sumOfIterations, cycleStartTime, detailFilePath, buffer, pauseMs,
          tmSec, sleeps, startTp, startStr, startSecond, endTp, endStr,
          iterations, i, currentSecond, bursts, loopExitAt, summary>>

envVars   == <<variant, stdin, priorLog>>
fileVars  == <<itLog, detailFiles, ioFailed>>
pauseVars == <<pauseMs, tmSec, sleeps>>
loopVars  == <<startTp, startStr, startSecond, endTp, endStr, iterations, i,
               currentSecond, bursts, loopExitAt>>

(***************************************************************************)
(* Bounds of the model.                                                    *)
(***************************************************************************)
\* Longest standard input, in characters.
MaxInputLen == 3
\* Cycles a run is followed for (a larger cycle count stops at this cycle).
MaxCycles == 2
\* Clock advances of TickMs in one run.
MaxTicks == 4
\* Count steps in one cycle.
MaxBursts == 2
\* Writes that fail in one run.
MaxIoFailures == 1
\* Whole days the final summary's elapsed time is followed to.
MaxDays == 1
\* One clock advance, milliseconds.
TickMs == 500
\* n_type is uint_fast32_t: unsigned arithmetic modulo 2^32 or 2^64 by the
\* build.  TLC's integers end at 2^31 - 1, so the model's n_type wraps at
\* NTypeMod, far above every count the bounds above let a run reach.
NTypeMod == 1073741824

(***************************************************************************)
(* Program constants.                                                      *)
(***************************************************************************)
\* if((i % 100000u) == 0u)
SampleEvery == 100000
\* if(currentSec % 8u != 0u)
PauseModulus == 8
\* pauseMs = getCurrentSecond() * 100u
PauseFactor == 100
\* startTp + std::chrono::seconds(1), in milliseconds
OneSecondMs == 1000

Dirs == {"CycleLogDetail", "CycleLog"}
Chars == {"0", "1", "2", "-", "a", "\n"}
Digits == {"0", "1", "2", "3", "4", "5", "6", "7", "8", "9"}
Spaces == {" ", "\n", "\t"}

(***************************************************************************)
(* Time and format utilities.                                              *)
(***************************************************************************)
\* getCurrentSecond(): tm_sec of the local time of a clock reading.
getCurrentSecond(t) == (t \div 1000) % 60

\* dateTimeToString(): "%Y-%m-%d %H:%M:%S", the reading cut to whole seconds
\* (the text is kept as the count of seconds it spells out).
dateTimeToString(t) == t \div 1000

\* getFileTimestamp(): "%Y%m%d_%I_%M_%S", the date, the hour on the 12-hour
\* clock (01..12, no AM/PM), the minute and the second.
getFileTimestamp(t) ==
    LET s == t \div 1000
        h == (s \div 3600) % 24
    IN  [date |-> s \div 86400,
         hh   |-> IF h % 12 = 0 THEN 12 ELSE h % 12,
         mm   |-> (s \div 60) % 60,
         ss   |-> s % 60]

\* "T <timestamp> <cycles> - <cycle>.txt"; setw(2) pads, it never cuts, so
\* the two numbers are in the name in full.
DetailFileName(t, n, c) == [ts |-> getFileTimestamp(t), cycles |-> n, cycle |-> c]

\* n_type arithmetic.
NAdd(a, b) == (a + b) % NTypeMod

\* std::locale(""): the thousands separator of the user's locale, none in
\* the "C" locale, "," in en_US.
GroupingSeparators == {"", ","}

DecimalChars == <<"0", "1", "2", "3", "4", "5", "6", "7", "8", "9">>

\* ss << value: the decimal digits of value, most significant first.
RECURSIVE DecimalDigits(_)
DecimalDigits(value) ==
    IF value < 10 THEN <<DecimalChars[value + 1]>>
    ELSE Append(DecimalDigits(value \div 10), DecimalChars[(value % 10) + 1])

\* The digits from the k-th on, the separator put before every digit that
\* has a multiple of three digits from itself to the end.
RECURSIVE GroupFrom(_, _, _)
GroupFrom(ds, k, sep) ==
    IF k > Len(ds) THEN <<>>
    ELSE (IF k > 1 /\ sep # "" /\ (Len(ds) - k + 1) % 3 = 0 THEN <<sep>> ELSE <<>>)
         \o <<ds[k]>> \o GroupFrom(ds, k + 1, sep)

\* formatWithCommas(value) in a locale whose thousands separator is sep.
formatWithCommas(value, sep) == GroupFrom(DecimalDigits(value), 1, sep)

\* C++ integer division and remainder (truncation toward zero).
CDiv(a, b) == IF a >= 0 THEN a \div b ELSE -((-a) \div b)
CMod(a, b) == a - b * CDiv(a, b)

(***************************************************************************)
(* std::cin >> cycles for an unsigned integer (num_get, base 10, classic   *)
(* locale).                                                                *)
(***************************************************************************)
DigitValue(c) ==
    CASE c = "0" -> 0 [] c = "1" -> 1 [] c = "2" -> 2 [] c = "3" -> 3
      [] c = "4" -> 4 [] c = "5" -> 5 [] c = "6" -> 6 [] c = "7" -> 7
      [] c = "8" -> 8 [] c = "9" -> 9

\* The first position at or after p that holds no white space (Len(s) + 1
\* when there is none): the sentry's skipws.
RECURSIVE SkipSpaces(_, _)
SkipSpaces(s, p) ==
    IF p <= Len(s) /\ s[p] \in Spaces THEN SkipSpaces(s, p + 1) ELSE p

\* The first position at or after p that holds no digit.
RECURSIVE DigitsEnd(_, _)
DigitsEnd(s, p) ==
    IF p <= Len(s) /\ s[p] \in Digits THEN DigitsEnd(s, p + 1) ELSE p

\* The digits s[p..q-1] accumulated from acc; -1 once the value no longer
\* fits n_type (overflow).
RECURSIVE Accumulate(_, _, _, _)
Accumulate(s, p, q, acc) ==
    IF p >= q THEN acc
    ELSE IF acc = -1 \/ acc > (NTypeMod - 1 - DigitValue(s[p])) \div 10 THEN -1
    ELSE Accumulate(s, p + 1, q, acc * 10 + DigitValue(s[p]))

\* The extraction: the value stored (old when nothing is stored), and the
\* stream's failbit and eofbit afterwards.
\*  - the sentry skips white space; at end of input it sets eofbit and
\*    failbit and nothing is stored;
\*  - an optional sign, then the digits up to the first other character
\*    (left unread) or the end of input (eofbit);
\*  - no digit: 0 is stored, failbit; overflow: the largest value, failbit;
\*  - a '-' negates the value in unsigned arithmetic, without failbit.
ExtractUnsigned(s, old) ==
    LET p0 == SkipSpaces(s, 1)
    IN  IF p0 > Len(s)
        THEN [value |-> old, fail |-> TRUE, eof |-> TRUE]
        ELSE
          LET signed == s[p0] \in {"-", "+"}
              neg    == s[p0] = "-"
              p1     == IF signed THEN p0 + 1 ELSE p0
              q      == DigitsEnd(s, p1)
              v      == Accumulate(s, p1, q, 0)
              eof    == q > Len(s)
          IN  IF q = p1 THEN [value |-> 0, fail |-> TRUE, eof |-> eof]
              ELSE IF v = -1
                   THEN [value |-> NTypeMod - 1, fail |-> TRUE, eof |-> eof]
              ELSE [value |-> IF neg THEN (NTypeMod - v) % NTypeMod ELSE v,
                    fail  |-> FALSE, eof |-> eof]

\* std::cin.good(): no failbit, no eofbit (badbit never arises here).
CinGood(r) == ~r.fail /\ ~r.eof

\* The cycle count main() runs with, and whether it warns.
InputInvalid(s) ==
    LET r == ExtractUnsigned(s, 1) IN ~CinGood(r) \/ r.value < 1
EffectiveCycles(s) ==
    IF InputInvalid(s) THEN 1 ELSE ExtractUnsigned(s, 1).value

\* All inputs of at most n characters.
RECURSIVE InputsUpTo(_)
InputsUpTo(n) ==
    IF n = 0 THEN {<<>>}
    ELSE LET shorter == InputsUpTo(n - 1)
         IN  shorter \cup {Append(s, c) : s \in shorter, c \in Chars}

(***************************************************************************)
(* The initial state: main() about to start.                               *)
(***************************************************************************)
\* A block a previous run left in Iteration.txt.
OldBlock == [kind |-> "summary", sum |-> 7, cycles |-> 1]

\* The inputs of the full runs, and the clock readings they start at.
RunInputs == {<<"2", "\n">>, <<"a">>}
StartClocks == {7500}

InitWith(inputs, clocks) ==
    /\ variant \in {"program", "optimized"}
    /\ pc = "createDirectories"
    /\ now \in clocks
    /\ ticks = 0
    /\ stdin \in inputs
    /\ priorLog \in {<<>>, <<OldBlock>>}
    /\ fsDirs = IF priorLog = <<>> THEN {} ELSE Dirs
    /\ dirFailed = {}
    /\ itLog = priorLog
    /\ detailFiles = {}
    /\ ioFailed = {}
    /\ cerr = <<>>
    /\ cout = <<>>
    /\ exitCode = -1
    /\ cycles = 1
    /\ cycle = 0
    /\ sumOfIterations = 0
    /\ cycleStartTime = 0
    /\ detailFilePath = DetailFileName(0, 0, 0)
    /\ buffer = <<>>
    /\ pauseMs = 0
    /\ tmSec = 0
    /\ sleeps = <<>>
    /\ startTp = 0
    /\ startStr = 0
    /\ startSecond = 0
    /\ endTp = 0
    /\ endStr = 0
    /\ iterations = 0
    /\ i = 0
    /\ currentSecond = 0
    /\ bursts = 0
    /\ loopExitAt = 0
    /\ summary = [written |-> FALSE]

Init == InitWith(RunInputs, StartClocks)

(***************************************************************************)
(* The environment's clock.  Time that passes shows only at a clock read,  *)
(* so Tick is taken right before the steps that read the clock.            *)
(***************************************************************************)
ClockReaders == {"appendHeader", "forCycle", "pauseInit", "pauseCheck",
                 "pauseResample", "loopStart", "loop", "finalSummary"}

Tick ==
    /\ pc \in ClockReaders
    /\ ticks < MaxTicks
    /\ now' = now + TickMs
    /\ ticks' = ticks + 1
    /\ UNCHANGED <<variant, pc, stdin, fsDirs, dirFailed, itLog, priorLog,
                   detailFiles, ioFailed, cerr, cout, exitCode, cycles, cycle,
                   sumOfIterations, cycleStartTime, detailFilePath, buffer,
                   summary>>
    /\ UNCHANGED pauseVars
    /\ UNCHANGED loopVars

(***************************************************************************)
(* Steps 1-3: the two directories.                                         *)
(***************************************************************************)
\* fs::create_directories(d), the overload that throws: the directory
\* exists afterwards, or std::filesystem::filesystem_error is thrown.
\* "missing" is the directory gone again when fs::exists looks for it.
CreateOutcomes(d) ==
    IF d \in fsDirs THEN {"exists"} ELSE {"created", "throws", "missing"}

\* main() catches nothing: the exception ends the process in
\* std::terminate, that is abort(), exit status 134 (128 + SIGABRT); the
\* terminate handler prints what(), which names the path.
CreateDirectories ==
    /\ pc = "createDirectories"
    /\ \E o1 \in CreateOutcomes("CycleLogDetail"), o2 \in CreateOutcomes("CycleLog") :
         IF o1 = "throws" \/ o2 = "throws"
         THEN LET d == IF o1 = "throws" THEN "CycleLogDetail" ELSE "CycleLog"
              IN  /\ dirFailed' = {d}
                  /\ fsDirs' = IF o1 = "created" THEN fsDirs \cup {"CycleLogDetail"}
                               ELSE fsDirs
                  /\ cerr' = Append(cerr, [kind |-> "terminate", path |-> d])
                  /\ exitCode' = 134
                  /\ pc' = "aborted"
         ELSE LET made == {d \in Dirs :
                             \/ d = "CycleLogDetail" /\ o1 \in {"created", "exists"}
                             \/ d = "CycleLog" /\ o2 \in {"created", "exists"}}
                  gone == Dirs \ made
              IN  /\ fsDirs' = made
                  /\ dirFailed' = gone
                  /\ IF gone # {}
                     THEN /\ cerr' = cerr
                                 \o <<[kind |-> "directoriesDoNotExist", path |-> ""]>>
                                 \o (IF "CycleLogDetail" \in gone
                                     THEN <<[kind |-> "missing", path |-> "CycleLogDetail"]>>
                                     ELSE <<>>)
                                 \o (IF "CycleLog" \in gone
                                     THEN <<[kind |-> "missing", path |-> "CycleLog"]>>
                                     ELSE <<>>)
                          /\ exitCode' = 1
                          /\ pc' = "exited"
                     ELSE /\ cerr' = cerr
                          /\ exitCode' = exitCode
                          /\ pc' = "readInput"
    /\ UNCHANGED <<variant, now, ticks, stdin, itLog, priorLog, detailFiles,
                   ioFailed, cout, cycles, cycle, sumOfIterations,
                   cycleStartTime, detailFilePath, buffer, summary>>
    /\ UNCHANGED pauseVars
    /\ UNCHANGED loopVars

(***************************************************************************)
(* Steps 4-5: the banner and the cycle count.                              *)
(***************************************************************************)
ReadInput ==
    /\ pc = "readInput"
    /\ cycles' = EffectiveCycles(stdin)
    /\ cerr' = IF InputInvalid(stdin)
               THEN Append(cerr, [kind |-> "invalidInput", path |-> "stdin"])
               ELSE cerr
    /\ cout' = Append(cout, [kind |-> "running", cycles |-> cycles'])
    /\ pc' = "appendHeader"
    /\ UNCHANGED <<variant, now, ticks, stdin, fsDirs, dirFailed, itLog,
                   priorLog, detailFiles, ioFailed, exitCode, cycle,
                   sumOfIterations, cycleStartTime, detailFilePath, buffer,
                   summary>>
    /\ UNCHANGED pauseVars
    /\ UNCHANGED loopVars

(***************************************************************************)
(* The summary log.  std::ofstream(path, std::ios::app) << ... : the text  *)
(* goes to the end of the file; when the file cannot be opened or written  *)
(* the stream is left failed, nothing is written and nothing is told.      *)
(***************************************************************************)
\* The file opened without std::ios::app: cut to nothing, then written.
AppendBlockTruncating(log, block) == <<block>>

AppendBlock(log, block) == Append(log, block)

\* The outcomes a write can have: it works, or (while the run has had fewer
\* than MaxIoFailures failures) it does not.
WriteOutcomes == IF Cardinality(ioFailed) < MaxIoFailures THEN BOOLEAN ELSE {TRUE}

\* The log and the record of failed writes after one append that either
\* works (ok) or does not.
LogAfter(ok, block) == IF ok THEN AppendBlock(itLog, block) ELSE itLog
FailedAfter(ok, what, c) ==
    IF ok THEN ioFailed ELSE ioFailed \cup {[what |-> what, cycle |-> c]}

\* "Cycles: <cycles>\t<date time>" between two lines of stars; then the
\* running sum and the run's start time.
AppendHeader ==
    /\ pc = "appendHeader"
    /\ \E ok \in WriteOutcomes :
         /\ itLog' = LogAfter(ok, [kind |-> "header", cycles |-> cycles,
                                   time |-> dateTimeToString(now)])
         /\ ioFailed' = FailedAfter(ok, "header", 0)
    /\ sumOfIterations' = 0
    /\ cycleStartTime' = now
    /\ cycle' = 1
    /\ pc' = "forCycle"
    /\ UNCHANGED <<variant, now, ticks, stdin, fsDirs, dirFailed, priorLog,
                   detailFiles, cerr, cout, exitCode, cycles, detailFilePath,
                   buffer, summary>>
    /\ UNCHANGED pauseVars
    /\ UNCHANGED loopVars

(***************************************************************************)
(* Step 6: the for loop over the cycles.                                   *)
(***************************************************************************)
\* for(cycle = 1; cycle <= cycles; ...): the test, then the head of the
\* body (the console lines, the detail file's name, the empty buffer).
ForCycle ==
    /\ pc = "forCycle"
    /\ IF cycle <= cycles
       THEN /\ cycle <= MaxCycles
            /\ cout' = Append(cout, [kind |-> "runningCycle", cycle |-> cycle,
                                     cycles |-> cycles])
            /\ detailFilePath' = DetailFileName(now, cycles, cycle)
            /\ buffer' = <<>>
            /\ sleeps' = <<>>
            /\ bursts' = 0
            /\ pc' = "pauseInit"
       ELSE /\ pc' = "finalSummary"
            /\ UNCHANGED <<cout, detailFilePath, buffer, sleeps, bursts>>
    /\ UNCHANGED <<variant, now, ticks, stdin, fsDirs, dirFailed, priorLog,
                   cerr, exitCode, cycles, cycle, sumOfIterations,
                   cycleStartTime, summary, pauseMs, tmSec>>
    /\ UNCHANGED fileVars
    /\ UNCHANGED <<startTp, startStr, startSecond, endTp, endStr, iterations,
                   i, currentSecond, loopExitAt>>

(***************************************************************************)
(* Step 7: the alignment pause.                                            *)
(***************************************************************************)
PauseFrame ==
    /\ UNCHANGED <<variant, ticks, stdin, fsDirs, dirFailed, priorLog, cerr,
                   exitCode, cycles, cycle, sumOfIterations, cycleStartTime,
                   detailFilePath, summary>>
    /\ UNCHANGED fileVars
    /\ UNCHANGED loopVars

\* The line "Paused for <ms>ms" (also "Pausing for <ms>ms" on the console).
PauseLine(ms) == [kind |-> "paused", ms |-> ms]

\* program.cxx: n_type pauseMs = getCurrentSecond() * 100u;
PauseInitProgram ==
    /\ variant = "program" /\ pc = "pauseInit"
    /\ pauseMs' = (getCurrentSecond(now) * PauseFactor) % NTypeMod
    /\ pc' = "pauseCheck"
    /\ UNCHANGED <<now, tmSec, sleeps, buffer, cout>>
    /\ PauseFrame

\* program.cxx: int currentSec = getCurrentSecond(); if(currentSec % 8u != 0u) break;
PauseCheckProgram ==
    /\ variant = "program" /\ pc = "pauseCheck"
    /\ tmSec' = getCurrentSecond(now)
    /\ pc' = IF tmSec' % PauseModulus # 0 THEN "loopStart" ELSE "pauseSleep"
    /\ UNCHANGED <<now, pauseMs, sleeps, buffer, cout>>
    /\ PauseFrame

\* program.cxx: the two lines and sleep_for(pauseMs), pauseMs being the
\* value computed before the test's own clock reading.
PauseSleepProgram ==
    /\ variant = "program" /\ pc = "pauseSleep"
    /\ cout' = Append(cout, [kind |-> "pausing", ms |-> pauseMs])
    /\ buffer' = Append(buffer, PauseLine(pauseMs))
    /\ sleeps' = Append(sleeps, <<tmSec, pauseMs>>)
    /\ now' = now + pauseMs
    /\ pc' = "pauseResample"
    /\ UNCHANGED <<pauseMs, tmSec>>
    /\ PauseFrame

\* program.cxx: pauseMs = getCurrentSecond() * 100u; and back to the test.
PauseResampleProgram ==
    /\ variant = "program" /\ pc = "pauseResample"
    /\ pauseMs' = (getCurrentSecond(now) * PauseFactor) % NTypeMod
    /\ pc' = "pauseCheck"
    /\ UNCHANGED <<now, tmSec, sleeps, buffer, cout>>
    /\ PauseFrame

\* program_optimized.cxx: the first localtime_r(&nowTimeT, &localTm).
PauseInitOptimized ==
    /\ variant = "optimized" /\ pc = "pauseInit"
    /\ tmSec' = getCurrentSecond(now)
    /\ pc' = "pauseCheck"
    /\ UNCHANGED <<now, pauseMs, sleeps, buffer, cout>>
    /\ PauseFrame

\* program_optimized.cxx: while(localTm.tm_sec % 8 == 0)
PauseCheckOptimized ==
    /\ variant = "optimized" /\ pc = "pauseCheck"
    /\ pc' = IF tmSec % PauseModulus = 0 THEN "pauseSleep" ELSE "loopStart"
    /\ UNCHANGED <<now, pauseMs, tmSec, sleeps, buffer, cout>>
    /\ PauseFrame

\* program_optimized.cxx: pauseMs = tm_sec * 100u, the two lines, sleep_for.
PauseSleepOptimized ==
    /\ variant = "optimized" /\ pc = "pauseSleep"
    /\ pauseMs' = (tmSec * PauseFactor) % NTypeMod
    /\ cout' = Append(cout, [kind |-> "pausing", ms |-> pauseMs'])
    /\ buffer' = Append(buffer, PauseLine(pauseMs'))
    /\ sleeps' = Append(sleeps, <<tmSec, pauseMs'>>)
    /\ now' = now + pauseMs'
    /\ pc' = "pauseResample"
    /\ UNCHANGED tmSec
    /\ PauseFrame

\* program_optimized.cxx: the re-check's localtime_r, and back to the test.
PauseResampleOptimized ==
    /\ variant = "optimized" /\ pc = "pauseResample"
    /\ tmSec' = getCurrentSecond(now)
    /\ pc' = "pauseCheck"
    /\ UNCHANGED <<now, pauseMs, sleeps, buffer, cout>>
    /\ PauseFrame

(***************************************************************************)
(* Steps 8-9: the timed counting loop.                                     *)
(*                                                                         *)
(* One pass of the loop body is: iterations = i + 1; ++i; a progress line  *)
(* when i is a multiple of 100000; (program.cxx) currentSecond re-read.    *)
(* A Count step is k passes on end made while the clock shows one reading: *)
(* the first k - 1 of them are passes that log nothing and leave the loop  *)
(* condition true, the last is a pass as the code writes it.               *)
(***************************************************************************)
LoopFrame ==
    /\ UNCHANGED <<variant, now, ticks, stdin, fsDirs, dirFailed, priorLog,
                   cerr, exitCode, cycles, cycle, cycleStartTime,
                   detailFilePath, summary>>
    /\ UNCHANGED fileVars
    /\ UNCHANGED pauseVars

BurstSizes == {1, SampleEvery}

\* if((i % 100000u) == 1u)
IsSamplePassOffByOne(n) == n % SampleEvery = 1

\* if((i % 100000u) == 0u)
IsSamplePass(n) == n % SampleEvery = 0

\* The passes that end with i = a + 1 .. b log nothing.
NoSampleIn(a, b) == (b \div SampleEvery) = (a \div SampleEvery)

\* "Cycle <cycle> of <cycles> Iteration <i> <date time>"
ProgressLine(n, t) ==
    [kind |-> "progress", cycle |-> cycle, cycles |-> cycles,
     iteration |-> n, time |-> dateTimeToString(t)]

\* The progress line put in front of the buffer, not at its end.
BufferAfterPassPrepending(n, t) ==
    IF IsSamplePass(n) THEN <<ProgressLine(n, t)>> \o buffer ELSE buffer

\* The buffer after the pass that ends with i = n at clock reading t.
BufferAfterPass(n, t) ==
    IF IsSamplePass(n) THEN Append(buffer, ProgressLine(n, t)) ELSE buffer

\* program.cxx: "Ready to go ...", startTp, startStr, startSecond, and the
\* loop's variables.
LoopStartProgram ==
    /\ variant = "program" /\ pc = "loopStart"
    /\ cout' = Append(cout, [kind |-> "ready", time |-> dateTimeToString(now)])
    /\ startTp' = now
    /\ startStr' = dateTimeToString(now)
    /\ startSecond' = getCurrentSecond(now)
    /\ iterations' = 0
    /\ i' = 0
    /\ currentSecond' = startSecond'
    /\ pc' = "loop"
    /\ UNCHANGED <<endTp, endStr, bursts, loopExitAt, buffer, sumOfIterations>>
    /\ LoopFrame

\* program.cxx: while(currentSecond == startSecond) { ... }, k passes.
CountProgram ==
    /\ variant = "program" /\ pc = "loop"
    /\ currentSecond = startSecond
    /\ bursts < MaxBursts
    /\ \E k \in BurstSizes :
         /\ k > 1 => getCurrentSecond(now) = startSecond
         /\ NoSampleIn(i, i + k - 1)
         /\ iterations' = NAdd(i + k - 1, 1)
         /\ i' = NAdd(i + k - 1, 1)
         /\ buffer' = BufferAfterPass(i', now)
    /\ currentSecond' = getCurrentSecond(now)
    /\ loopExitAt' = IF currentSecond' # startSecond THEN now ELSE loopExitAt
    /\ bursts' = bursts + 1
    /\ UNCHANGED <<pc, startTp, startStr, startSecond, endTp, endStr, cout,
                   sumOfIterations>>
    /\ LoopFrame

\* sumOfIterations = iterations; (the sum overwritten, not added to)
AccumulateOverwrite(sum, n) == n

\* sumOfIterations += iterations;
AccumulateSum(sum, n) == NAdd(sum, n)

\* "Iterations <iterations> Start <start> ... End <end>"
IterationsLine(n, from, to) ==
    [kind |-> "iterations", iterations |-> n, start |-> from, end |-> to]

\* program.cxx: the loop is left; sumOfIterations += iterations; endTp,
\* endStr and the buffer's last line.
LoopExitProgram ==
    /\ variant = "program" /\ pc = "loop"
    /\ currentSecond # startSecond
    /\ sumOfIterations' = AccumulateSum(sumOfIterations, iterations)
    /\ endStr' = dateTimeToString(now)
    /\ buffer' = Append(buffer, IterationsLine(iterations, startStr, endStr'))
    /\ pc' = "writeDetail"
    /\ UNCHANGED <<startTp, startStr, startSecond, endTp, iterations, i,
                   currentSecond, bursts, loopExitAt, cout>>
    /\ LoopFrame

\* program_optimized.cxx: nowTp, startTp (steady_clock), endTp = startTp +
\* one second, startStr, "Ready to go ...", and the loop's variables.
LoopStartOptimized ==
    /\ variant = "optimized" /\ pc = "loopStart"
    /\ cout' = Append(cout, [kind |-> "ready", time |-> dateTimeToString(now)])
    /\ startTp' = now
    /\ endTp' = now + OneSecondMs
    /\ startStr' = dateTimeToString(now)
    /\ iterations' = 0
    /\ i' = 0
    /\ pc' = "loop"
    /\ UNCHANGED <<startSecond, endStr, currentSecond, bursts, loopExitAt,
                   buffer, sumOfIterations>>
    /\ LoopFrame

\* program_optimized.cxx: while(steady_clock::now() < endTp) { ... }, k passes.
CountOptimized ==
    /\ variant = "optimized" /\ pc = "loop"
    /\ now < endTp
    /\ bursts < MaxBursts
    /\ \E k \in BurstSizes :
         /\ NoSampleIn(i, i + k - 1)
         /\ iterations' = NAdd(i + k - 1, 1)
         /\ i' = NAdd(i + k - 1, 1)
         /\ buffer' = BufferAfterPass(i', now)
    /\ bursts' = bursts + 1
    /\ UNCHANGED <<pc, startTp, startStr, startSecond, endTp, endStr,
                   currentSecond, loopExitAt, cout, sumOfIterations>>
    /\ LoopFrame

\* program_optimized.cxx: the loop is left; sumOfIterations += iterations;
\* realEndSys, endStr and the buffer's last line.
LoopExitOptimized ==
    /\ variant = "optimized" /\ pc = "loop"
    /\ ~(now < endTp)
    /\ loopExitAt' = now
    /\ sumOfIterations' = AccumulateSum(sumOfIterations, iterations)
    /\ endStr' = dateTimeToString(now)
    /\ buffer' = Append(buffer, IterationsLine(iterations, startStr, endStr'))
    /\ pc' = "writeDetail"
    /\ UNCHANGED <<startTp, startStr, startSecond, endTp, iterations, i,
                   currentSecond, bursts, cout>>
    /\ LoopFrame

(***************************************************************************)
(* Step 10: the detail file and the cycle's block in the summary log.      *)
(***************************************************************************)
\* std::ofstream ofs(detailFilePath): the file is created or cut to nothing
\* and holds the buffer afterwards.
WriteFile(files, name, lines) ==
    {f \in files : f.name # name} \cup {[name |-> name, lines |-> lines]}

\* The path on the console; the file written if(ofs.is_open()), and nothing
\* else done when it is not; the buffer on the console.
WriteDetail ==
    /\ pc = "writeDetail"
    /\ \E ok \in WriteOutcomes :
         /\ detailFiles' = IF ok THEN WriteFile(detailFiles, detailFilePath, buffer)
                           ELSE detailFiles
         /\ ioFailed' = FailedAfter(ok, "detail", cycle)
    /\ cout' = Append(cout, [kind |-> "detailPath", name |-> detailFilePath]) \o buffer
    /\ pc' = "appendCycle"
    /\ UNCHANGED <<variant, now, ticks, stdin, fsDirs, dirFailed, itLog,
                   priorLog, cerr, exitCode, cycles, cycle, sumOfIterations,
                   cycleStartTime, detailFilePath, buffer, summary>>
    /\ UNCHANGED pauseVars
    /\ UNCHANGED loopVars

\* "***\t<cycle>\t***..." then the start, the raw count and the end.
CycleBlock ==
    [kind |-> "cycle", cycle |-> cycle, start |-> startStr,
     iterations |-> iterations, end |-> endStr]

\* The block appended, then ++cycle.
AppendCycle ==
    /\ pc = "appendCycle"
    /\ \E ok \in WriteOutcomes :
         /\ itLog' = LogAfter(ok, CycleBlock)
         /\ ioFailed' = FailedAfter(ok, "cycle", cycle)
    /\ cycle' = NAdd(cycle, 1)
    /\ pc' = "forCycle"
    /\ UNCHANGED <<variant, now, ticks, stdin, fsDirs, dirFailed, priorLog,
                   detailFiles, cerr, cout, exitCode, cycles, sumOfIterations,
                   cycleStartTime, detailFilePath, buffer, summary>>
    /\ UNCHANGED pauseVars
    /\ UNCHANGED loopVars

(***************************************************************************)
(* Step 11: the final summary.                                             *)
(***************************************************************************)
MsPerDay == 86400000
MsPerHour == 3600000
MsPerMinute == 60000

\* The hours taken from totalMs, not from what the days leave.
ElapsedBreakdownHoursOfTotal(totalMs) ==
    LET rem1    == CMod(totalMs, MsPerDay)
        rem2    == CMod(rem1, MsPerHour)
        rem3    == CMod(rem2, MsPerMinute)
    IN  [days |-> CDiv(totalMs, MsPerDay), hours |-> CDiv(totalMs, MsPerHour),
         minutes |-> CDiv(rem2, MsPerMinute),
         seconds |-> CDiv(rem3, 1000), ms |-> CMod(rem3, 1000)]

\* totalMs broken down into days, hours, minutes, seconds and milliseconds.
ElapsedBreakdown(totalMs) ==
    LET days    == CDiv(totalMs, MsPerDay)
        rem1    == CMod(totalMs, MsPerDay)
        hours   == CDiv(rem1, MsPerHour)
        rem2    == CMod(rem1, MsPerHour)
        minutes == CDiv(rem2, MsPerMinute)
        rem3    == CMod(rem2, MsPerMinute)
    IN  [days |-> days, hours |-> hours, minutes |-> minutes,
         seconds |-> CDiv(rem3, 1000), ms |-> CMod(rem3, 1000)]

\* n_type avgOpsPerSec = (cycles > 0) ? (sumOfIterations / cycles) : 0;
AverageOps(sum, n) == IF n > 0 THEN sum \div n ELSE 0

\* cycleEndTime, the breakdown, the sum and the average on the console and
\* appended to the summary log; return 0.
FinalSummary ==
    /\ pc = "finalSummary"
    /\ LET totalMs == now - cycleStartTime
           line == [kind |-> "summary", sum |-> sumOfIterations,
                    cycles |-> cycles,
                    average |-> AverageOps(sumOfIterations, cycles),
                    started |-> dateTimeToString(cycleStartTime),
                    ended |-> dateTimeToString(now),
                    totalMs |-> totalMs,
                    time |-> ElapsedBreakdown(totalMs)]
       IN  /\ summary' = [written |-> TRUE, runStart |-> cycleStartTime,
                          runEnd |-> now, line |-> line]
           /\ cout' = Append(cout, line)
           /\ \E ok \in WriteOutcomes :
                /\ itLog' = LogAfter(ok, line)
                /\ ioFailed' = FailedAfter(ok, "summary", 0)
    /\ exitCode' = 0
    /\ pc' = "done"
    /\ UNCHANGED <<variant, now, ticks, stdin, fsDirs, dirFailed, priorLog,
                   detailFiles, cerr, cycles, cycle, sumOfIterations,
                   cycleStartTime, detailFilePath, buffer>>
    /\ UNCHANGED pauseVars
    /\ UNCHANGED loopVars

(***************************************************************************)
(* The run.                                                                *)
(***************************************************************************)
Next ==
    \/ Tick
    \/ CreateDirectories
    \/ ReadInput
    \/ AppendHeader
    \/ ForCycle
    \/ PauseInitProgram
    \/ PauseCheckProgram
    \/ PauseSleepProgram
    \/ PauseResampleProgram
    \/ PauseInitOptimized
    \/ PauseCheckOptimized
    \/ PauseSleepOptimized
    \/ PauseResampleOptimized
    \/ LoopStartProgram
    \/ CountProgram
    \/ LoopExitProgram
    \/ LoopStartOptimized
    \/ CountOptimized
    \/ LoopExitOptimized
    \/ WriteDetail
    \/ AppendCycle
    \/ FinalSummary

Spec == Init /\ [][Next]_vars

(***************************************************************************)
(* The cycle count alone: the run up to the header, for every input of at  *)
(* most MaxInputLen characters.                                            *)
(***************************************************************************)
InitInput == InitWith(InputsUpTo(MaxInputLen), StartClocks)

NextInput ==
    \/ CreateDirectories
    \/ ReadInput
    \/ AppendHeader

SpecInput == InitInput /\ [][NextInput]_vars

(***************************************************************************)
(* Reading the run's records.                                              *)
(***************************************************************************)
IsRunningCycle(l) == l.kind = "runningCycle"
IsIterations(l) == l.kind = "iterations"
IsProgress(l) == l.kind = "progress"
IsDetailPath(l) == l.kind = "detailPath"

RECURSIVE SumOfCounts(_)
SumOfCounts(lines) ==
    IF lines = <<>> THEN 0
    ELSE Head(lines).iterations + SumOfCounts(Tail(lines))

\* What the run appended to Iteration.txt.
Appended == SubSeq(itLog, Len(priorLog) + 1, Len(itLog))

Finished == pc = "done"

(***************************************************************************)
(* C1: a run with effective cycle count N >= 1 executes exactly the cycles *)
(* 1, 2, ..., N in that order, the total the final summary reports is the  *)
(* exact sum of the N per-cycle iteration counts, and the average is that  *)
(* total divided by N with integer division.                               *)
(***************************************************************************)
C1_CyclesAndTotal ==
    Finished =>
      LET ran    == SelectSeq(cout, IsRunningCycle)
          counts == SelectSeq(cout, IsIterations)
          total  == SumOfCounts(counts)
      IN  /\ cycles >= 1
          /\ Len(ran) = cycles
          /\ \A k \in 1..Len(ran) : ran[k].cycle = k
          /\ Len(counts) = cycles
          /\ summary.line.sum = total
          /\ summary.line.cycles = cycles
          /\ summary.line.average = total \div cycles

C1_Witness ==
    /\ Finished
    /\ cycles = 2
    /\ LET counts == SelectSeq(cout, IsIterations)
       IN  /\ Len(counts) = 2
           /\ counts[1].iterations > 0
           /\ counts[2].iterations > 0
           /\ counts[1].iterations # counts[2].iterations

(***************************************************************************)
(* C2: the cycle count read from standard input determines the run: a      *)
(* positive integer N on the input (whether or not anything follows it)    *)
(* gives N cycles; every other input (non-numeric, zero, negative, empty)  *)
(* gives 1 cycle and a warning on the error stream, and the run goes on.   *)
(***************************************************************************)
\* The number the input spells out: the value of the digits it starts with
\* after white space, 0 when it starts with no digit.
LeadingNumber(s) ==
    LET p == SkipSpaces(s, 1)
        q == DigitsEnd(s, p)
    IN  IF q = p THEN 0 ELSE Accumulate(s, p, q, 0)

Warned == \E k \in DOMAIN cerr : cerr[k].kind = "invalidInput"

C2_InputDeterminesCycles ==
    pc = "appendHeader" =>
      IF LeadingNumber(stdin) >= 1
      THEN cycles = LeadingNumber(stdin)
      ELSE cycles = 1 /\ Warned /\ exitCode = -1

(***************************************************************************)
(* C3: when the creation of a required directory fails, the process names  *)
(* the missing path on the error stream and ends with exit code 1, before  *)
(* any cycle runs and before anything is written to the summary log or to  *)
(* a detail file.                                                          *)
(***************************************************************************)
C3_DirectoryFailureExitsOne ==
    dirFailed # {} =>
      /\ exitCode = 1
      /\ \A d \in dirFailed : \E k \in DOMAIN cerr : cerr[k].path = d
      /\ itLog = priorLog
      /\ detailFiles = {}
      /\ SelectSeq(cout, IsRunningCycle) = <<>>

(***************************************************************************)
(* C4: when a cycle's detail file cannot be written, the run goes on, the  *)
(* cycle's count is added to the total, its block is appended to the       *)
(* summary log, and the failure is reported on the error stream.           *)
(***************************************************************************)
DetailFailures == {f \in ioFailed : f.what = "detail"}

C4_DetailFailureReported ==
    \A f \in DetailFailures :
      /\ pc \notin {"aborted", "exited"}
      /\ \E k \in DOMAIN cerr : cerr[k].kind = "writeFailed"
      /\ Finished =>
           /\ summary.line.sum = SumOfCounts(SelectSeq(cout, IsIterations))
           /\ Len(SelectSeq(cout, IsRunningCycle)) = cycles

(***************************************************************************)
(* C5: when an append to the summary log fails (run header, cycle block or *)
(* final summary), the run is aborted with a reported error: no later      *)
(* cycle is executed and the process does not end with exit code 0.        *)
(***************************************************************************)
LogFailures == {f \in ioFailed : f.what \in {"header", "cycle", "summary"}}

\* A cycle started after the failed append f: any cycle after a failed
\* header, a cycle of a higher index after a failed cycle block.
LaterCycleRan(f) ==
    /\ f.what \in {"header", "cycle"}
    /\ \E k \in DOMAIN cout : IsRunningCycle(cout[k]) /\ cout[k].cycle > f.cycle

C5_LogFailureAborts ==
    \A f \in LogFailures :
      /\ exitCode # 0
      /\ ~LaterCycleRan(f)

(***************************************************************************)
(* C6: in every cycle the counting loop is not left while less than one    *)
(* second has passed since the cycle's start, in both programs.            *)
(***************************************************************************)
LoopLeft == pc \in {"writeDetail", "appendCycle"}

C6_LoopRunsOneSecond ==
    LoopLeft => loopExitAt - startTp >= OneSecondMs

(***************************************************************************)
(* C7, as claimed: a run of N cycles whose writes all succeed leaves N     *)
(* detail files with distinct names and appends to the summary log one     *)
(* block per cycle, in increasing cycle order, then one final summary      *)
(* block, and no other block; what the log held before is still its        *)
(* prefix.                                                                 *)
(***************************************************************************)
PriorKept == Len(itLog) >= Len(priorLog) /\ SubSeq(itLog, 1, Len(priorLog)) = priorLog

DetailFilesOfRun ==
    LET names == {cout[k].name : k \in {j \in DOMAIN cout : IsDetailPath(cout[j])}}
    IN  /\ Cardinality(names) = cycles
        /\ Cardinality(detailFiles) = cycles
        /\ \A n \in names : \E f \in detailFiles : f.name = n

\* Appended[from + 1 .. from + cycles] are the cycles' blocks in order and
\* the final summary's block follows them as the last block.
CycleBlocksThenSummary(from) ==
    /\ Len(Appended) = from + cycles + 1
    /\ \A k \in 1..cycles :
         Appended[from + k].kind = "cycle" /\ Appended[from + k].cycle = k
    /\ Appended[from + cycles + 1].kind = "summary"

C7_Original ==
    /\ PriorKept
    /\ (Finished /\ ioFailed = {}) => DetailFilesOfRun /\ CycleBlocksThenSummary(0)

(***************************************************************************)
(* C7, amended: ... appends to the summary log one run-header block, then  *)
(* one block per cycle in increasing cycle order, then one final summary   *)
(* block, and no other block; what the log held before is still its        *)
(* prefix, and the N detail files have distinct names.                     *)
(***************************************************************************)
C7_HeaderCyclesSummary ==
    /\ PriorKept
    /\ (Finished /\ ioFailed = {}) =>
         /\ DetailFilesOfRun
         /\ Len(Appended) >= 1 /\ Appended[1].kind = "header"
         /\ CycleBlocksThenSummary(1)

C7_Witness ==
    /\ Finished /\ ioFailed = {}
    /\ cycles = 2
    /\ priorLog # <<>>
    /\ Len(itLog) = Len(priorLog) + 4

(***************************************************************************)
(* C8: within one cycle the progress samples are taken at the iteration    *)
(* counts 100000, 200000, 300000, ...: the first at 100000, consecutive    *)
(* ones 100000 apart, none above the cycle's iteration count, and their    *)
(* timestamps never decrease.                                              *)
(***************************************************************************)
ProgressSamples == SelectSeq(buffer, IsProgress)

C8_ProgressSamples ==
    \A k \in 1..Len(ProgressSamples) :
      /\ ProgressSamples[k].iteration = k * SampleEvery
      /\ ProgressSamples[k].iteration <= iterations
      /\ k > 1 => ProgressSamples[k - 1].time <= ProgressSamples[k].time

C8_Witness ==
    /\ pc = "appendCycle"
    /\ Len(ProgressSamples) = 2
    /\ ProgressSamples[1].time < ProgressSamples[2].time
    /\ \E f \in detailFiles : f.name = detailFilePath /\ f.lines = buffer

(***************************************************************************)
(* The final summary alone: the state of a one-cycle run of program.cxx    *)
(* that is about to read the clock for cycleEndTime, e milliseconds after  *)
(* cycleStartTime.                                                         *)
(***************************************************************************)
RunStartClock == CHOOSE t \in StartClocks : TRUE

BeforeSummaryAt(e) ==
    LET start == RunStartClock
        name  == DetailFileName(start, 1, 1)
        lines == <<[kind |-> "progress", cycle |-> 1, cycles |-> 1,
                    iteration |-> SampleEvery, time |-> dateTimeToString(start)],
                   [kind |-> "iterations", iterations |-> SampleEvery + 1,
                    start |-> dateTimeToString(start),
                    end |-> dateTimeToString(start + TickMs)]>>
    IN  /\ variant = "program"
        /\ pc = "finalSummary"
        /\ now = start + e
        /\ ticks = 1
        /\ stdin = <<"a">>
        /\ priorLog = <<>>
        /\ fsDirs = Dirs
        /\ dirFailed = {}
        /\ itLog = <<[kind |-> "header", cycles |-> 1,
                      time |-> dateTimeToString(start)],
                     [kind |-> "cycle", cycle |-> 1,
                      start |-> dateTimeToString(start),
                      iterations |-> SampleEvery + 1,
                      end |-> dateTimeToString(start + TickMs)]>>
        /\ detailFiles = {[name |-> name, lines |-> lines]}
        /\ ioFailed = {}
        /\ cerr = <<[kind |-> "invalidInput", path |-> "stdin"]>>
        /\ cout = <<[kind |-> "running", cycles |-> 1],
                    [kind |-> "runningCycle", cycle |-> 1, cycles |-> 1],
                    [kind |-> "ready", time |-> dateTimeToString(start)],
                    [kind |-> "detailPath", name |-> name]>> \o lines
        /\ exitCode = -1
        /\ cycles = 1
        /\ cycle = 2
        /\ sumOfIterations = SampleEvery + 1
        /\ cycleStartTime = start
        /\ detailFilePath = name
        /\ buffer = lines
        /\ pauseMs = getCurrentSecond(start) * PauseFactor
        /\ tmSec = getCurrentSecond(start)
        /\ sleeps = <<>>
        /\ startTp = start
        /\ startStr = dateTimeToString(start)
        /\ startSecond = getCurrentSecond(start)
        /\ endTp = 0
        /\ endStr = dateTimeToString(start + TickMs)
        /\ iterations = SampleEvery + 1
        /\ i = SampleEvery + 1
        /\ currentSecond = getCurrentSecond(start + TickMs)
        /\ bursts = 2
        /\ loopExitAt = start + TickMs
        /\ summary = [written |-> FALSE]

ElapsedSamples ==
    {e \in {d * MsPerDay + h * MsPerHour + m * MsPerMinute + sec * 1000 + f :
              d \in 0..MaxDays, h \in {0, 1, 23}, m \in {0, 59},
              sec \in {0, 59}, f \in {0, 500, 999}} : e >= TickMs}

InitElapsed == \E e \in ElapsedSamples : BeforeSummaryAt(e)

SpecElapsed == InitElapsed /\ [][FinalSummary]_vars

(***************************************************************************)
(* C9: the elapsed-time breakdown of runEnd - runStart has 0 <= hours <    *)
(* 24, 0 <= minutes < 60, 0 <= seconds < 60, 0 <= ms < 1000, and days,     *)
(* hours, minutes, seconds and ms put together again give the elapsed      *)
(* milliseconds exactly.                                                   *)
(***************************************************************************)
C9_ElapsedBreakdown ==
    summary.written =>
      LET t == summary.line.time
      IN  /\ 0 <= t.hours /\ t.hours < 24
          /\ 0 <= t.minutes /\ t.minutes < 60
          /\ 0 <= t.seconds /\ t.seconds < 60
          /\ 0 <= t.ms /\ t.ms < 1000
          /\ t.days * 86400000 + t.hours * 3600000 + t.minutes * 60000
               + t.seconds * 1000 + t.ms = summary.runEnd - summary.runStart

C9_Witness ==
    /\ summary.written
    /\ summary.line.time.days >= 1
    /\ summary.line.time.hours = 23
    /\ summary.line.time.minutes = 59
    /\ summary.line.time.seconds = 59
    /\ summary.line.time.ms = 999

(***************************************************************************)
(* C10: in the alignment pause a sleep happens only after a clock sample   *)
(* whose second s is a multiple of 8 and lasts s * 100 ms for that same    *)
(* s, so every pause is one of 0, 800, ..., 5600 ms; the pause ends only   *)
(* on a sample whose second is no multiple of 8.                           *)
(***************************************************************************)
PauseLengths == {s * 100 : s \in {0, 8, 16, 24, 32, 40, 48, 56}}

C10_PauseSleeps ==
    /\ \A k \in 1..Len(sleeps) :
         /\ sleeps[k][1] % 8 = 0
         /\ sleeps[k][2] = sleeps[k][1] * 100
         /\ sleeps[k][2] \in PauseLengths
    /\ pc = "loopStart" => tmSec % 8 # 0

(***************************************************************************)
(* Reading a detail file.  A line's count is written by formatWithCommas;  *)
(* CountOf reads such a text back as a number, whatever separates the      *)
(* groups of digits.                                                       *)
(***************************************************************************)
IsDecimalChar(c) == \E d \in 1..10 : DecimalChars[d] = c
DecimalValue(c) == (CHOOSE d \in 1..10 : DecimalChars[d] = c) - 1

RECURSIVE CountOf(_)
CountOf(text) ==
    IF text = <<>> THEN 0
    ELSE LET c == text[Len(text)]
             rest == SubSeq(text, 1, Len(text) - 1)
         IN  IF IsDecimalChar(c) THEN CountOf(rest) * 10 + DecimalValue(c)
             ELSE CountOf(rest)

\* The text of the count reads as n in every locale.
CountReadsAs(line, n) ==
    \A sep \in GroupingSeparators : CountOf(formatWithCommas(line.iterations, sep)) = n

\* lines is: some "Paused for" lines, then the progress lines of cycle c
\* at 100000, 200000, ... up to the count with non-decreasing times
\* between the start and the end, then one "Iterations" line, the last.
DetailLines(lines, c) ==
    /\ Len(lines) >= 1
    /\ LET last == lines[Len(lines)]
       IN  /\ last.kind = "iterations"
           /\ LET q == last.iterations \div SampleEvery
                  p == Len(lines) - 1 - q
              IN  /\ p >= 0
                  /\ \A k \in 1..p : lines[k].kind = "paused"
                  /\ \A k \in 1..q :
                       /\ lines[p + k].kind = "progress"
                       /\ lines[p + k].cycle = c
                       /\ lines[p + k].iteration = k * SampleEvery
                       /\ last.start <= lines[p + k].time
                       /\ lines[p + k].time <= last.end
                       /\ k > 1 => lines[p + k - 1].time <= lines[p + k].time

\* The pause lines of the current cycle are its sleeps, in their order.
PauseLinesAreSleeps(lines) ==
    /\ Len(SelectSeq(lines, LAMBDA l : l.kind = "paused")) = Len(sleeps)
    /\ \A k \in 1..Len(sleeps) : lines[k] = PauseLine(sleeps[k][2])

\* The detail file of cycle c and the cycle's block in what the run
\* appended, where there is one.
DetailFileOf(c) == {f \in detailFiles : f.name.cycle = c}
CycleBlocksOf(c) ==
    {k \in DOMAIN Appended : Appended[k].kind = "cycle" /\ Appended[k].cycle = c}
DetailWriteFailed(c) == [what |-> "detail", cycle |-> c] \in ioFailed

\* The current cycle's buffer or file: its lines, with the current
\* cycle's pauses and the count the loop ended with.
CurrentDetail(lines) ==
    /\ DetailLines(lines, cycle)
    /\ PauseLinesAreSleeps(lines)
    /\ lines[Len(lines)] = IterationsLine(iterations, startStr, endStr)
    /\ CountReadsAs(lines[Len(lines)], iterations)

(***************************************************************************)
(* C11: the detail file written for a cycle holds, in the order of the     *)
(* events, one line per alignment pause and one per progress sample of     *)
(* that cycle, then exactly one "Iterations ... Start ... End ..." line as *)
(* its last line; the count of that line is the count added to the running *)
(* total and written to the cycle's block in the summary log; and the      *)
(* detail file is written before that block is appended.                   *)
(***************************************************************************)
C11_DetailFile ==
    /\ pc = "writeDetail" =>
         /\ CurrentDetail(buffer)
         /\ sumOfIterations =
              NAdd(SumOfCounts(SelectSeq(cout, IsIterations)) % NTypeMod, iterations)
         /\ CycleBlocksOf(cycle) = {}
    /\ pc = "appendCycle" =>
         /\ ~DetailWriteFailed(cycle) =>
              \E f \in DetailFileOf(cycle) :
                 f.name = detailFilePath /\ f.lines = buffer /\ CurrentDetail(f.lines)
         /\ sumOfIterations = SumOfCounts(SelectSeq(cout, IsIterations)) % NTypeMod
         /\ CycleBlock.iterations = buffer[Len(buffer)].iterations
         /\ CycleBlocksOf(cycle) = {}
    /\ \A f \in detailFiles :
         /\ DetailLines(f.lines, f.name.cycle)
         /\ Cardinality(DetailFileOf(f.name.cycle)) = 1
         /\ \A k \in CycleBlocksOf(f.name.cycle) :
              LET last == f.lines[Len(f.lines)]
              IN  /\ Appended[k].iterations = last.iterations
                  /\ CountReadsAs(last, Appended[k].iterations)
                  /\ Appended[k].start = last.start
                  /\ Appended[k].end = last.end
    /\ \A k \in DOMAIN Appended :
         Appended[k].kind = "cycle" =>
            DetailFileOf(Appended[k].cycle) # {} \/ DetailWriteFailed(Appended[k].cycle)

C11_Witness ==
    /\ pc = "forCycle" /\ cycle = 2 /\ ioFailed = {}
    /\ Len(sleeps) >= 1
    /\ iterations > SampleEvery
    /\ CycleBlocksOf(1) # {}
    /\ \E f \in DetailFileOf(1) :
         /\ f.lines = buffer
         /\ Len(f.lines) = Len(sleeps) + 2
         /\ f.lines[1].kind = "paused"
         /\ f.lines[Len(sleeps) + 1].kind = "progress"

====
